---- MODULE Spec2Model ----
(***************************************************************************)
(* A model of liboprf's threshold OPRF (src/src/toprf.c, toprf.h) and of   *)
(* the trusted-party DKG whose interface is declared in src/src/tp-dkg.h.  *)
(*                                                                         *)
(* Scalars.  libsodium's crypto_core_ristretto255_scalar_* functions work  *)
(* in the prime field Z_L, L = 2^252 + 27742317777372353535851937790883648493.*)
(* A scalar is modelled by the fraction <<num, den>> in lowest terms,      *)
(* den > 0, that stands for num * den^-1 mod L: <<5, 1>> is the scalar 5,  *)
(* <<-1, 1>> is L - 1, <<1, 2>> is the inverse of 2.  Sums, products and   *)
(* inverses of fractions are those of the scalars they stand for, and two  *)
(* fractions whose numerators and denominators are below 2^31 stand for    *)
(* the same scalar only if they are the same fraction (the difference of   *)
(* their cross products is below L).  The model computes with such         *)
(* fractions only: where a numerator or denominator would leave that       *)
(* range the evaluation stops with an overflow instead of a value.         *)
(*                                                                         *)
(* Foreign bytes.  The write toprf_create_shares makes before the array    *)
(* when n = 255 can leave, where the secret was, 32 bytes that depend on   *)
(* the caller's memory layout and on the build.  <<0, 1, g>> stands for    *)
(* the bytes the stray write of generation g left: a number R_g below      *)
(* 2^256 of which nothing else is known; it need not be below L.  Two      *)
(* stray writes that follow each other have different generations, so      *)
(* what one left is never taken for what the other left.                   *)
(* crypto_core_ristretto255_scalar_add adds its 32-byte operands modulo    *)
(* 2^256 and reduces the sum modulo L: on canonical operands that is the   *)
(* sum in Z_L, on the bytes R_g and a canonical c it is                    *)
(* B(g, c) = ((R_g + c) mod 2^256) mod L, which is R_g + c or              *)
(* R_g + c - 2^256 in Z_L as the bytes decide.  <<num, den, g, c, m>>,     *)
(* m # 0, stands for the canonical scalar m * B(g, c) + num * den^-1.      *)
(* The function only copies the secret and adds to it, so these sums are   *)
(* all it computes of foreign bytes; no product or inverse of one is.      *)
(*                                                                         *)
(* Points.  ristretto255 is a cyclic group of the same prime order.  A     *)
(* valid point encoding is modelled by its discrete logarithm to a fixed   *)
(* generator, a scalar (<<0, 1>> is the identity, whose encoding is 32     *)
(* zero bytes), so point addition is addition of logarithms and scalar     *)
(* multiplication is multiplication.  BadPoint stands for a byte string    *)
(* that does not decode to a group element (a non-canonical encoding).     *)
(***************************************************************************)
EXTENDS Integers, Sequences, FiniteSets, TLC

\* ------------------------------------------------------------------------
\* Program constants
\* ------------------------------------------------------------------------

\* uint8_t: the width of n, threshold, the share index and the loop counter i
UINT8_MAX == 255

\* ------------------------------------------------------------------------
\* Bounds of the model
\* ------------------------------------------------------------------------

\* n ranges over 2..SmallN and over the two largest values of a uint8_t
SmallN == 3

\* threshold ranges over 2..MaxThreshold
MaxThreshold == 3

\* secrets range over 0..MaxScalar and L-1, sampled coefficients over the
\* same scalars without 0
MaxScalar == 1

\* blinded points range over the logarithms 0..MaxPoint and BadPoint
MaxPoint == 2

\* ------------------------------------------------------------------------
\* libsodium primitives, as the code calls them
\* ------------------------------------------------------------------------

AbsInt(x) == IF x < 0 THEN 0 - x ELSE x

RECURSIVE Gcd(_, _)
Gcd(x, y) == IF y = 0 THEN x ELSE Gcd(y, x % y)

\* the fraction nu / de, de # 0, in lowest terms with a positive denominator
Fraction(nu, de) ==
  LET g == Gcd(AbsInt(nu), AbsInt(de))
  IN IF de > 0 THEN <<nu \div g, de \div g>>
     ELSE <<(0 - nu) \div g, (0 - de) \div g>>

\* the scalar whose first byte is b and whose other bytes are 0, as the
\* code builds it (toprf.c 57-58, 70-71, 94-95)
ScalarOfByte(b) == <<b, 1>>

ScalarZero == ScalarOfByte(0)

ScalarOne == ScalarOfByte(1)

\* L - 1, the largest scalar
ScalarMinusOne == <<0 - 1, 1>>

\* the canonical scalars the model knows: the fractions
IsExact(x) == Len(x) = 2

\* the 32 bytes R_g the stray write of generation g left where the secret
\* was
ForeignScalar(g) == <<0, 1, g>>

IsForeignBytes(x) == Len(x) = 3

\* the canonical scalar m * B(g, c) + q for the exact scalars q and c, where
\* B(g, c) = ((R_g + c) mod 2^256) mod L
ForeignSum(q, g, c, m) == IF m = 0 THEN q ELSE <<q[1], q[2], g, c, m>>

IsForeignSum(x) == Len(x) = 5

\* the exact scalar q of the foreign sum m * B(g, c) + q
ExactPart(x) == <<x[1], x[2]>>

\* the sum of two fractions
fraction_add(x, y) ==
  LET g == Gcd(x[2], y[2])
  IN Fraction(x[1] * (y[2] \div g) + y[1] * (x[2] \div g), (x[2] \div g) * y[2])

\* L - x for a canonical x.  Of the bytes R_g the negation is taken with
\* 64 bytes and reduced: -(R_g mod L) = -B(g, 0)
scalar_negate(x) ==
  IF IsExact(x) THEN <<0 - x[1], x[2]>>
  ELSE IF IsForeignBytes(x) THEN ForeignSum(ScalarZero, x[3], ScalarZero, 0 - 1)
  ELSE ForeignSum(<<0 - x[1], x[2]>>, x[3], x[4], 0 - x[5])

\* the product of exact scalars; there is none for a foreign scalar
crypto_core_ristretto255_scalar_mul(x, y) ==
  LET g1 == Gcd(AbsInt(x[1]), y[2])
      g2 == Gcd(AbsInt(y[1]), x[2])
  IN IF IsExact(x) /\ IsExact(y)
     THEN <<(x[1] \div g1) * (y[1] \div g2), (x[2] \div g2) * (y[2] \div g1)>>
     ELSE CHOOSE z \in {} : TRUE

\* (x + y mod 2^256) mod L: the 32-byte operands are added without the
\* carry out of byte 31 and the sum is reduced.  Canonical operands are
\* below 2^253, so their sum has no carry.  The sum of foreign bytes and a
\* canonical scalar is B(g, c); sums the model has no value for (two
\* operands of foreign bytes, foreign sums over different B) are not
\* computed by the code
crypto_core_ristretto255_scalar_add(x, y) ==
  IF IsExact(x) /\ IsExact(y) THEN fraction_add(x, y)
  ELSE IF IsForeignBytes(x) /\ IsExact(y) THEN ForeignSum(ScalarZero, x[3], y, 1)
  ELSE IF IsExact(x) /\ IsForeignBytes(y) THEN ForeignSum(ScalarZero, y[3], x, 1)
  ELSE IF IsForeignSum(x) /\ IsExact(y)
       THEN ForeignSum(fraction_add(ExactPart(x), y), x[3], x[4], x[5])
  ELSE IF IsExact(x) /\ IsForeignSum(y)
       THEN ForeignSum(fraction_add(x, ExactPart(y)), y[3], y[4], y[5])
  ELSE IF IsForeignSum(x) /\ IsForeignSum(y) /\ x[3] = y[3] /\ x[4] = y[4]
       THEN ForeignSum(fraction_add(ExactPart(x), ExactPart(y)), x[3], x[4],
                       x[5] + y[5])
  ELSE CHOOSE z \in {} : TRUE

\* x + (L - y): the negation of y, then the addition
crypto_core_ristretto255_scalar_sub(x, y) ==
  crypto_core_ristretto255_scalar_add(x, scalar_negate(y))

\* x^(L-2): the inverse of x, and 0 for x = 0; there is none for a foreign
\* scalar
crypto_core_ristretto255_scalar_invert(x) ==
  IF ~IsExact(x) THEN CHOOSE z \in {} : TRUE
  ELSE IF x[1] = 0 THEN ScalarZero
  ELSE IF x[1] > 0 THEN <<x[2], x[1]>> ELSE <<0 - x[2], 0 - x[1]>>

\* the draws of S that crypto_core_ristretto255_scalar_random returns: it
\* draws again when the draw is 0
scalar_random_draws(S) == S \ {ScalarZero}

\* x multiplied m times into 1
RECURSIVE ScalarPow(_, _)
ScalarPow(x, m) ==
  IF m = 0 THEN ScalarOne
  ELSE crypto_core_ristretto255_scalar_mul(ScalarPow(x, m - 1), x)

\* a byte string that is the encoding of no point
BadPoint == <<0, 0>>

ValidPoint(p) == p[2] # 0

\* the encoding memset(result,0,...) writes: the identity element
IdentityPoint == ScalarZero

\* r = p + q; leaves r alone when p or q does not decode (the code ignores
\* the return value)
crypto_core_ristretto255_add(r, p, q) ==
  IF ValidPoint(p) /\ ValidPoint(q)
  THEN crypto_core_ristretto255_scalar_add(p, q) ELSE r

\* q = n * p; -1 when p does not decode (q untouched) or when the product is
\* the identity (q holds it)
crypto_scalarmult_ristretto255(q, n, p) ==
  IF ~ValidPoint(p) THEN [ret |-> -1, q |-> q]
  ELSE LET prod == crypto_core_ristretto255_scalar_mul(n, p)
       IN [ret |-> IF prod = IdentityPoint THEN -1 ELSE 0, q |-> prod]

\* ------------------------------------------------------------------------
\* coeff (toprf.c 55-78)
\* ------------------------------------------------------------------------

\* one round of the loop without the test of line 68
coeff_body_no_skip(index, peer, acc) ==
  <<crypto_core_ristretto255_scalar_mul(acc[1], ScalarOfByte(peer)),
    crypto_core_ristretto255_scalar_mul(acc[2],
       crypto_core_ristretto255_scalar_sub(ScalarOfByte(peer),
                                           ScalarOfByte(index)))>>

\* one round of the loop with the difference taken as index - peer
coeff_body_swapped(index, peer, acc) ==
  IF peer = index THEN acc
  ELSE <<crypto_core_ristretto255_scalar_mul(acc[1], ScalarOfByte(peer)),
         crypto_core_ristretto255_scalar_mul(acc[2],
            crypto_core_ristretto255_scalar_sub(ScalarOfByte(index),
                                                ScalarOfByte(peer)))>>

\* one round of the loop, lines 67-74, on acc = <<divident, divisor>>; index
\* and peer are bytes, iscalar and tmp the scalars made of them
coeff_body(index, peer, acc) ==
  IF peer = index THEN acc
  ELSE <<crypto_core_ristretto255_scalar_mul(acc[1], ScalarOfByte(peer)),
         crypto_core_ristretto255_scalar_mul(acc[2],
            crypto_core_ristretto255_scalar_sub(ScalarOfByte(peer),
                                                ScalarOfByte(index)))>>

RECURSIVE coeff_loop(_, _, _, _)
coeff_loop(index, peers, j, acc) ==
  IF j > Len(peers) THEN acc
  ELSE coeff_loop(index, peers, j + 1, coeff_body(index, peers[j], acc))

\* the loop started at the second element of the list
coeff_from_second(index, peers) ==
  LET acc == coeff_loop(index, peers, 2, <<ScalarOne, ScalarOne>>)
  IN crypto_core_ristretto255_scalar_mul(
        crypto_core_ristretto255_scalar_invert(acc[2]), acc[1])

coeff(index, peers) ==
  LET acc == coeff_loop(index, peers, 1, <<ScalarOne, ScalarOne>>)
  IN crypto_core_ristretto255_scalar_mul(
        crypto_core_ristretto255_scalar_invert(acc[2]), acc[1])

\* ------------------------------------------------------------------------
\* toprf_create_shares (toprf.c 80-107): the polynomial evaluation
\* ------------------------------------------------------------------------

\* lines 100-103: tmp = a[j] * x, then j more multiplications by x
RECURSIVE share_exp_loop(_, _, _, _)
share_exp_loop(tmp, x, exp, j) ==
  IF exp < j
  THEN share_exp_loop(crypto_core_ristretto255_scalar_mul(tmp, x), x, exp + 1, j)
  ELSE tmp

share_term(aj, x, j) ==
  share_exp_loop(crypto_core_ristretto255_scalar_mul(aj, x), x, 0, j)

\* lines 96-105: value = the 32 bytes of the secret, then the terms for
\* j = 0..threshold-2.  The first addition reads the copied bytes as they
\* are: of foreign bytes it makes B(g, first term)
RECURSIVE share_sum(_, _, _, _, _)
share_sum(value, coeffs, x, j, thr) ==
  IF j < thr - 1
  THEN share_sum(crypto_core_ristretto255_scalar_add(value, share_term(coeffs[j], x, j)),
                 coeffs, x, j + 1, thr)
  ELSE value

\* the TOPRF_Share written for loop counter ii, lines 93-105; x is the scalar
\* made of the byte ii
share_at(sec, coeffs, ii, thr) ==
  [index |-> ii, value |-> share_sum(sec, coeffs, ScalarOfByte(ii), 0, thr)]

\* ------------------------------------------------------------------------
\* oprf_Evaluate (oprf.c, called at toprf.c 146)
\* ------------------------------------------------------------------------

\* return crypto_scalarmult_ristretto255(Z, k, blinded): Z = k * blinded; fails
\* when blinded is no valid group element (Z untouched) and when the product
\* is the identity (Z holds it)
oprf_Evaluate(k, alpha, Z) ==
  LET sm == crypto_scalarmult_ristretto255(Z, k, alpha)
  IN [ret |-> sm.ret, Z |-> sm.q]

\* ------------------------------------------------------------------------
\* toprf_Evaluate (toprf.c 133-149)
\* ------------------------------------------------------------------------

\* Z is the caller's output buffer as it is before the call
toprf_Evaluate_no_lpoly(k, alpha, self, idx, Z) ==
  LET ev == oprf_Evaluate(k.value, alpha, Z.value)
  IN [ret |-> IF ev.ret # 0 THEN 1 ELSE 0,
      Z |-> [index |-> Z.index, value |-> ev.Z]]

toprf_Evaluate(k, alpha, self, idx, Z) ==
  LET lpoly == coeff(self, idx)
      kl == crypto_core_ristretto255_scalar_mul(k.value, lpoly)
      ev == oprf_Evaluate(kl, alpha, Z.value)
  IN [ret |-> IF ev.ret # 0 THEN 1 ELSE 0,
      Z |-> [index |-> Z.index, value |-> ev.Z]]

\* ------------------------------------------------------------------------
\* toprf_thresholdcombine (toprf.c 151-161)
\* ------------------------------------------------------------------------

RECURSIVE thresholdcombine_loop(_, _, _)
thresholdcombine_loop(responses, k, result) ==
  IF k > Len(responses) THEN result
  ELSE thresholdcombine_loop(responses, k + 1,
          crypto_core_ristretto255_add(result, result, responses[k].value))

toprf_thresholdcombine_skip_first(responses) ==
  thresholdcombine_loop(responses, 2, IdentityPoint)

toprf_thresholdcombine(responses) ==
  thresholdcombine_loop(responses, 1, IdentityPoint)

\* ------------------------------------------------------------------------
\* toprf_thresholdmult (toprf.c 109-131)
\* ------------------------------------------------------------------------

\* lines 117-120
response_indexes(responses) == [k \in 1..Len(responses) |-> responses[k].index]

\* lines 121-130; gki is only read after a successful scalar multiplication
RECURSIVE thresholdmult_loop(_, _, _, _, _)
thresholdmult_loop(responses, idx, k, result, gki) ==
  IF k > Len(responses) THEN [ret |-> 0, result |-> result]
  ELSE LET lpoly == coeff(responses[k].index, idx)
           sm == crypto_scalarmult_ristretto255(gki, lpoly, responses[k].value)
       IN IF sm.ret # 0
          THEN [ret |-> 1, result |-> result]
          ELSE thresholdmult_loop(responses, idx, k + 1,
                  crypto_core_ristretto255_add(result, result, sm.q), sm.q)

\* the same loop without the test of the return value
RECURSIVE thresholdmult_loop_unchecked(_, _, _, _, _)
thresholdmult_loop_unchecked(responses, idx, k, result, gki) ==
  IF k > Len(responses) THEN [ret |-> 0, result |-> result]
  ELSE LET lpoly == coeff(responses[k].index, idx)
           sm == crypto_scalarmult_ristretto255(gki, lpoly, responses[k].value)
       IN thresholdmult_loop_unchecked(responses, idx, k + 1,
                  crypto_core_ristretto255_add(result, result, sm.q), sm.q)

toprf_thresholdmult_unchecked(responses) ==
  thresholdmult_loop_unchecked(responses, response_indexes(responses), 1,
                               IdentityPoint, BadPoint)

toprf_thresholdmult(responses) ==
  thresholdmult_loop(responses, response_indexes(responses), 1,
                     IdentityPoint, BadPoint)

\* ------------------------------------------------------------------------
\* State
\* ------------------------------------------------------------------------

VARIABLES
  \* toprf_create_shares: its arguments, its locals, the caller's array;
  \* secret is the 32 bytes the pointer secret points to, secret_at_call
  \* what they were when the function was called
  n, threshold, secret, secret_at_call, a, i, cs_pc, shares, oob,
  \* one threshold evaluation over the created shares
  ev_pc, indexes, blinded, junk, parts, erets, combined, mult,
  \* a call of coeff on a list and on a second list
  c_pc, c_index, c_peers, c_other, c_lambda, c_lambda_other,
  \* a call of toprf_thresholdmult on responses from the network
  m_pc, m_responses, m_out,
  \* a TP-DKG session: the randomness and the peers that do not run the code
  seed, faulty,
  \* TP_DKG_TPState, with the code the last call of tpdkg_tp_next returned
  tp_step, tp_ret, tp_commitments, tp_shares, tp_complaints, cheaters,
  \* TP_DKG_PeerState of every peer, with the code the last call of
  \* tpdkg_peer_next returned
  peer_step, peer_ret, peer_share,
  \* the last message of every peer to the TP: the body, by kind
  p_commit, p_slots, p_complaints, p_reveals,
  \* the header of the last message of the TP to every peer, and of the
  \* last message of every peer to the TP
  tp_frame, p_frame,
  \* a TP session reading framed messages: the clock, the session's
  \* ts_epsilon and last_ts, the step and the peer whose message is read
  \* next, the last message read with last_ts before it and the code returned
  now, ts_epsilon, last_ts, r_step, r_peer, r_msg, r_last, r_ret,
  \* what t-1 shareholders see: the threshold, their indices and share
  \* values, a candidate secret, the coefficient vectors that explain them
  v_pc, v_threshold, v_indexes, v_values, v_secret, v_solutions

csVars == <<n, threshold, secret, secret_at_call, a, i, cs_pc, shares, oob>>
evVars == <<ev_pc, indexes, blinded, junk, parts, erets, combined, mult>>
coeffVars == <<c_pc, c_index, c_peers, c_other, c_lambda, c_lambda_other>>
multVars == <<m_pc, m_responses, m_out>>
tpVars == <<tp_step, tp_ret, tp_commitments, tp_shares, tp_complaints, cheaters,
           tp_frame>>
peerVars == <<peer_step, peer_ret, peer_share>>
msgVars == <<p_commit, p_slots, p_complaints, p_reveals, p_frame>>
dkgVars == <<seed, faulty, tpVars, peerVars, msgVars>>
recvVars == <<now, ts_epsilon, last_ts, r_step, r_peer, r_msg, r_last, r_ret>>
viewVars == <<v_pc, v_threshold, v_indexes, v_values, v_secret, v_solutions>>
auxVars == <<recvVars, viewVars>>
vars == <<csVars, evVars, coeffVars, multVars, dkgVars, auxVars>>

None == [ret |-> 0 - 1, result |-> BadPoint]

\* the values of the variables of a part of the program that is not running
csOff == /\ n = 0 /\ threshold = 0 /\ secret = ScalarZero
         /\ secret_at_call = ScalarZero /\ a = <<>> /\ i = 0
         /\ cs_pc = "off" /\ shares = <<>> /\ oob = FALSE
evOff == /\ ev_pc = "off" /\ indexes = <<>> /\ blinded = BadPoint /\ junk = 0
         /\ parts = <<>> /\ erets = <<>> /\ combined = BadPoint /\ mult = None
coeffOff == /\ c_pc = "off" /\ c_index = 0 /\ c_peers = <<>> /\ c_other = <<>>
            /\ c_lambda = ScalarZero /\ c_lambda_other = ScalarZero
multOff == /\ m_pc = "off" /\ m_responses = <<>> /\ m_out = None
dkgOff == /\ seed = 0 /\ faulty = {} /\ tp_step = 0 /\ tp_ret = 0
          /\ tp_commitments = <<>> /\ tp_shares = <<>> /\ tp_complaints = <<>>
          /\ cheaters = <<>> /\ peer_step = <<>> /\ peer_ret = <<>>
          /\ peer_share = <<>> /\ p_commit = <<>> /\ p_slots = <<>>
          /\ p_complaints = <<>> /\ p_reveals = <<>>
          /\ tp_frame = <<>> /\ p_frame = <<>>

recvOff == /\ now = 0 /\ ts_epsilon = 0 /\ last_ts = 0 /\ r_step = 0
           /\ r_peer = 0 /\ r_msg = <<>> /\ r_last = 0 /\ r_ret = 0
viewOff == /\ v_pc = "off" /\ v_threshold = 0 /\ v_indexes = <<>>
           /\ v_values = <<>> /\ v_secret = ScalarZero /\ v_solutions = {}
auxOff == recvOff /\ viewOff

\* ------------------------------------------------------------------------
\* Inputs
\* ------------------------------------------------------------------------

NVals == (2..SmallN) \cup {UINT8_MAX - 1, UINT8_MAX}

\* the scalars the inputs are drawn from: the small ones and L - 1
ScalarVals == {ScalarOfByte(k) : k \in 0..MaxScalar} \cup {ScalarMinusOne}

\* the blinded elements: the identity, multiples of the generator, and a
\* string that is no point
BlindedVals == {ScalarOfByte(k) : k \in 0..MaxPoint} \cup {BadPoint}

\* what an output buffer may hold before it is written
JunkBytes == {0, UINT8_MAX}

\* the share indices the evaluations draw from: the small ones and the
\* first one whose byte has the top bit set
IdxVals(nn) == {k \in (1..SmallN) \cup {(UINT8_MAX + 1) \div 2} : k <= nn}

\* the lists of len increasing values of S
SortedLists(S, len) ==
  {f \in [1..len -> S] : \A x, y \in 1..len : x < y => f[x] < f[y]}

\* ------------------------------------------------------------------------
\* toprf_create_shares (toprf.c 80-107) as a process
\* ------------------------------------------------------------------------

\* the generation of the stray write that follows the passes made with the
\* secret sec: every share in the array was written from sec, so a
\* generation other than that of sec is new to the state
stray_generation(sec) == IF IsForeignBytes(sec) THEN 3 - sec[3] ELSE 1

\* the state at the call: the arguments, the array the caller passes
InitCreateShares ==
  /\ n \in NVals
  /\ threshold \in 2..MaxThreshold
  /\ threshold <= n
  /\ secret \in ScalarVals
  /\ secret_at_call = secret
  /\ a = <<>>
  /\ i = 0
  /\ cs_pc = "sample"
  /\ shares = [k \in 0..(n - 1) |-> [index |-> 0, value |-> ScalarZero]]
  /\ oob = FALSE

\* lines 86-90 and the initialisation i=1 of line 91
create_shares_sample ==
  /\ cs_pc = "sample"
  /\ a' \in [0..(threshold - 2) -> scalar_random_draws(ScalarVals)]
  /\ i' = 1
  /\ cs_pc' = "loop"
  /\ UNCHANGED <<n, threshold, secret, secret_at_call, shares, oob>>
  /\ UNCHANGED <<evVars, coeffVars, multVars, dkgVars, auxVars>>

\* one round of the loop of lines 91-106: the test i<=n, the body, i++ on a
\* uint8_t.  With i = 0 the body writes the 33 bytes of shares[-1], before
\* the array.  What lies there is the caller's: the write may hit memory
\* the function never reads, or the secret the next rounds copy from, or
\* it ends the run ("crash" also stands for a write that destroys the
\* function's own frame).  Where it hits the secret, the bytes it leaves
\* there depend on the layout and on the build: one of the scalars the
\* secrets are drawn from, or foreign bytes, other ones at every stray
\* write.  The round that copies foreign bytes adds the first term to them
\* without the carry out of byte 31 (share_sum).
create_shares_body ==
  /\ cs_pc = "loop"
  /\ i <= n
  /\ IF (i - 1) \in DOMAIN shares
     THEN /\ shares' = [shares EXCEPT ![i - 1] = share_at(secret, a, i, threshold)]
          /\ oob' = oob
          /\ cs_pc' = "loop"
          /\ secret' = secret
     ELSE /\ shares' = shares
          /\ oob' = TRUE
          /\ \/ /\ cs_pc' = "loop"
                /\ secret' \in ScalarVals \cup
                               {secret, ForeignScalar(stray_generation(secret))}
             \/ cs_pc' = "crash" /\ secret' = secret
  /\ i' = (i + 1) % (UINT8_MAX + 1)
  /\ UNCHANGED <<n, threshold, a, secret_at_call>>
  /\ UNCHANGED <<evVars, coeffVars, multVars, dkgVars, auxVars>>

\* the loop test fails: the function returns
create_shares_exit ==
  /\ cs_pc = "loop"
  /\ ~(i <= n)
  /\ cs_pc' = "done"
  /\ UNCHANGED <<n, threshold, secret, secret_at_call, a, i, shares, oob>>
  /\ UNCHANGED <<evVars, coeffVars, multVars, dkgVars, auxVars>>

\* ------------------------------------------------------------------------
\* A threshold evaluation: t shareholders, then the combiner
\* ------------------------------------------------------------------------

InitEvaluation ==
  /\ ev_pc = "idle" /\ indexes = <<>> /\ blinded = BadPoint /\ junk = 0
  /\ parts = <<>> /\ erets = <<>> /\ combined = BadPoint /\ mult = None

\* the client picks the contributing shareholders and the blinded element
ChooseSubset ==
  /\ cs_pc = "done"
  /\ ev_pc = "idle"
  /\ indexes' \in SortedLists(IdxVals(n), threshold)
  /\ blinded' \in BlindedVals
  /\ junk' \in JunkBytes
  /\ ev_pc' = "eval"
  /\ UNCHANGED <<parts, erets, combined, mult>>
  /\ UNCHANGED <<csVars, coeffVars, multVars, dkgVars, auxVars>>

\* the next shareholder of the list calls toprf_Evaluate on its share, with
\* an output buffer that holds junk
Evaluate ==
  /\ ev_pc = "eval"
  /\ Len(parts) < Len(indexes)
  /\ LET self == indexes[Len(parts) + 1]
         out == toprf_Evaluate(shares[self - 1], blinded, self, indexes,
                               [index |-> junk, value |-> BadPoint])
     IN /\ parts' = Append(parts, out.Z)
        /\ erets' = Append(erets, out.ret)
  /\ UNCHANGED <<ev_pc, indexes, blinded, junk, combined, mult>>
  /\ UNCHANGED <<csVars, coeffVars, multVars, dkgVars, auxVars>>

\* the client sums the t partials
ThresholdCombine ==
  /\ ev_pc = "eval"
  /\ Len(parts) = Len(indexes)
  /\ combined' = toprf_thresholdcombine(parts)
  /\ ev_pc' = "mult"
  /\ UNCHANGED <<indexes, blinded, junk, parts, erets, mult>>
  /\ UNCHANGED <<csVars, coeffVars, multVars, dkgVars, auxVars>>

\* the responses toprf.h 70-71 describes: share k_i multiplied by the point,
\* under the index of the share
raw_responses(sh, idx, alpha) ==
  [k \in 1..Len(idx) |->
     [index |-> sh[idx[k] - 1].index,
      value |-> IF ValidPoint(alpha)
                THEN crypto_core_ristretto255_scalar_mul(sh[idx[k] - 1].value, alpha)
                ELSE BadPoint]]

\* the same subset answers without the Lagrange factor and the client calls
\* toprf_thresholdmult
ThresholdMult ==
  /\ ev_pc = "mult"
  /\ mult' = toprf_thresholdmult(raw_responses(shares, indexes, blinded))
  /\ ev_pc' = "done"
  /\ UNCHANGED <<indexes, blinded, junk, parts, erets, combined>>
  /\ UNCHANGED <<csVars, coeffVars, multVars, dkgVars, auxVars>>

Init == InitCreateShares /\ InitEvaluation /\ coeffOff /\ multOff /\ dkgOff /\ auxOff

Next ==
  \/ create_shares_sample
  \/ create_shares_body
  \/ create_shares_exit
  \/ ChooseSubset
  \/ Evaluate
  \/ ThresholdCombine
  \/ ThresholdMult

Spec == Init /\ [][Next]_vars

\* ------------------------------------------------------------------------
\* coeff called on a list and on a rearrangement of the list
\* ------------------------------------------------------------------------

\* the lists the calls draw from hold at most MaxPeers indices
MaxPeers == 3

ListsUpTo(S, len) == UNION {[1..k -> S] : k \in 1..len}

\* the image of a list
Range(p) == {p[k] : k \in 1..Len(p)}

DuplicateFree(p) == \A x, y \in 1..Len(p) : x # y => p[x] # p[y]

\* the rearrangements of list p
Rearrangements(p) ==
  LET vals == {p[k] : k \in 1..Len(p)}
      count(q, v) == Cardinality({x \in 1..Len(q) : q[x] = v})
  IN {q \in [1..Len(p) -> vals] : \A v \in vals : count(q, v) = count(p, v)}

InitCoeff ==
  /\ c_pc = "first"
  /\ c_index \in IdxVals(UINT8_MAX)
  /\ c_peers \in ListsUpTo(IdxVals(UINT8_MAX), MaxPeers)
  /\ c_other \in Rearrangements(c_peers)
  /\ c_lambda = ScalarZero
  /\ c_lambda_other = ScalarZero

CoeffFirst ==
  /\ c_pc = "first"
  /\ c_lambda' = coeff(c_index, c_peers)
  /\ c_pc' = "second"
  /\ UNCHANGED <<c_index, c_peers, c_other, c_lambda_other>>
  /\ UNCHANGED <<csVars, evVars, multVars, dkgVars, auxVars>>

CoeffSecond ==
  /\ c_pc = "second"
  /\ c_lambda_other' = coeff(c_index, c_other)
  /\ c_pc' = "done"
  /\ UNCHANGED <<c_index, c_peers, c_other, c_lambda>>
  /\ UNCHANGED <<csVars, evVars, multVars, dkgVars, auxVars>>

NextCoeff == CoeffFirst \/ CoeffSecond

InitSpecCoeff == InitCoeff /\ csOff /\ evOff /\ multOff /\ dkgOff /\ auxOff

SpecCoeff == InitSpecCoeff /\ [][NextCoeff]_vars

\* ------------------------------------------------------------------------
\* toprf_thresholdmult called on responses as they come from the network
\* ------------------------------------------------------------------------

\* a response list holds at most MaxResponses parts
MaxResponses == 3

ResponseVals ==
  [index : 0..SmallN, value : BlindedVals]

InitMult ==
  /\ m_pc = "call"
  /\ m_responses \in ListsUpTo(ResponseVals, MaxResponses)
  /\ m_out = None

ThresholdMultCall ==
  /\ m_pc = "call"
  /\ m_out' = toprf_thresholdmult(m_responses)
  /\ m_pc' = "done"
  /\ UNCHANGED m_responses
  /\ UNCHANGED <<csVars, evVars, coeffVars, dkgVars, auxVars>>

NextMult == ThresholdMultCall

InitSpecMult == InitMult /\ csOff /\ evOff /\ coeffOff /\ dkgOff /\ auxOff

SpecMult == InitSpecMult /\ [][NextMult]_vars

\* ------------------------------------------------------------------------
\* TP-DKG (tp-dkg.h).  The header declares the state, the step functions
\* and the error codes; the steps themselves follow sections 4.5 to 4.7 of
\* the specification.
\* ------------------------------------------------------------------------

\* the 2-out-of-3 setup
DKG_N == 3
DKG_T == 2

Peers == 1..DKG_N

\* the rounds of the protocol, in the order both roles go through them; a
\* state's step is its position in this list
DkgSteps == <<"intro", "noise1", "noise2", "commit", "shares", "complain",
              "reveal", "finish", "done">>

StepNo(name) == CHOOSE k \in 1..Len(DkgSteps) : DkgSteps[k] = name

TPDKG_Done == Len(DkgSteps)

\* runs draw their randomness from the seeds 0..MaxSeed
MaxSeed == 1

\* at most MaxFaulty peers send messages the code would not send; at least
\* one peer of a session runs the code
MaxFaulty == 2

\* error codes of step 18 (tp-dkg.h 196-207)
KEY_REVEAL_STEP == 18
ERR_HMAC == 3
ERR_DECRYPT == 4
ERR_SHARE_INDEX == 5
ERR_NOT_COMPLAINED == 6
ERR_UNCHECKED == 7
ERR_FALSE_COMPLAINT == 128
ERR_CORRECT_COMPLAINT == 129

\* the capacity of the cheaters array (tp-dkg.h 309-317)
CheaterMax == DKG_T * DKG_T - 1

\* tp-dkg.h 443-448: 1 if more steps are outstanding
tpdkg_tp_not_done(step) == IF step < TPDKG_Done THEN 1 ELSE 0

\* tp-dkg.h 575-581
tpdkg_peer_not_done(step) == IF step < TPDKG_Done THEN 1 ELSE 0

\* the scalar the m-th draw of peer j yields under seed sd
dkg_sample(sd, j, m) == ScalarOfByte((sd + 1) * (3 * j + 5 * m + 1))

\* the polynomial of peer j: a[0] is its secret
dkg_poly(sd, j) == [m \in 0..(DKG_T - 1) |-> dkg_sample(sd, j, m)]

\* f(x) for polynomial f and peer index x, computed as toprf_create_shares
\* computes it
dkg_eval(f, x) ==
  share_sum(f[0], [m \in 0..(DKG_T - 2) |-> f[m + 1]], ScalarOfByte(x), 0, DKG_T)

\* the generator
BasePoint == ScalarOne

\* C_m = g^{a_m}
dkg_commit(f) ==
  [m \in 0..(DKG_T - 1) |-> crypto_core_ristretto255_scalar_mul(f[m], BasePoint)]

\* sum over m of x^m * C_m
RECURSIVE commitment_sum(_, _, _)
commitment_sum(C, x, m) ==
  IF m >= DKG_T THEN IdentityPoint
  ELSE crypto_core_ristretto255_add(IdentityPoint,
          crypto_core_ristretto255_scalar_mul(ScalarPow(ScalarOfByte(x), m), C[m]),
          commitment_sum(C, x, m + 1))

\* g^{share} = prod C_m^{x^m}
dkg_verify_commitment(C, x, value) ==
  crypto_core_ristretto255_scalar_mul(value, BasePoint) = commitment_sum(C, x, 0)

\* the slot peer j sends for recipient r when it runs the code
honest_slot(sd, j, r) ==
  [value |-> dkg_eval(dkg_poly(sd, j), r), index |-> r, hmac_ok |-> TRUE]

\* the slots a peer outside the code may send: the value may be off
faulty_slots(sd, j, r) ==
  {[value |-> v, index |-> r, hmac_ok |-> TRUE] :
     v \in {dkg_eval(dkg_poly(sd, j), r),
            crypto_core_ristretto255_scalar_add(dkg_eval(dkg_poly(sd, j), r),
                                                ScalarOne)}}

\* the peers a complaint list accuses peer j in front of: its complainants
Complainants(cl, j) == {cl[k][1] : k \in {x \in 1..Len(cl) : cl[x][2] = j}}

\* the set S as a list in increasing order
RECURSIVE SetToList(_)
SetToList(S) ==
  IF S = {} THEN <<>>
  ELSE LET x == CHOOSE y \in S : \A z \in S : y <= z
       IN <<x>> \o SetToList(S \ {x})

\* the complaints of all peers, by complainant and then by accused
RECURSIVE aggregate_complaints(_, _)
aggregate_complaints(pc, j) ==
  IF j > DKG_N THEN <<>>
  ELSE [k \in 1..Cardinality(pc[j]) |-> <<j, SetToList(pc[j])[k]>>]
          \o aggregate_complaints(pc, j + 1)

\* the verdict on complaint <<a, b>> (a complains about b), section 4.7:
\* slot is the stored share of b for a, reveal is what b revealed for the
\* session with a, C is the commitment vector of b
complaint_verdict_hmac_first(c, slot, reveal, C) ==
  LET acc(e) == [step |-> KEY_REVEAL_STEP, error |-> e, peer |-> c[2], other_peer |-> c[1]]
  IN IF reveal = "missing" THEN acc(ERR_UNCHECKED)
     ELSE IF ~slot.hmac_ok THEN acc(ERR_HMAC)
     ELSE IF reveal # "ok" THEN acc(ERR_DECRYPT)
     ELSE IF slot.index # c[1] THEN acc(ERR_SHARE_INDEX)
     ELSE IF dkg_verify_commitment(C, c[1], slot.value)
          THEN [step |-> KEY_REVEAL_STEP, error |-> ERR_FALSE_COMPLAINT,
                peer |-> c[1], other_peer |-> c[2]]
          ELSE acc(ERR_CORRECT_COMPLAINT)

complaint_verdict(c, slot, reveal, C) ==
  LET acc(e) == [step |-> KEY_REVEAL_STEP, error |-> e, peer |-> c[2], other_peer |-> c[1]]
  IN IF reveal = "missing" THEN acc(ERR_UNCHECKED)
     ELSE IF reveal # "ok" THEN acc(ERR_DECRYPT)
     ELSE IF slot.index # c[1] THEN acc(ERR_SHARE_INDEX)
     ELSE IF ~slot.hmac_ok THEN acc(ERR_HMAC)
     ELSE IF dkg_verify_commitment(C, c[1], slot.value)
          THEN [step |-> KEY_REVEAL_STEP, error |-> ERR_FALSE_COMPLAINT,
                peer |-> c[1], other_peer |-> c[2]]
          ELSE acc(ERR_CORRECT_COMPLAINT)

\* what accused b revealed for its session with a
reveal_of(rv, ca, cb) == IF ca \in DOMAIN rv[cb] THEN rv[cb][ca] ELSE "missing"

\* the complaints in order.  The cheaters list is bounded: its capacity is
\* t*t-1 (section 3, TP state; section 4.5 item 11; tp-dkg.h 309-311:
\* "the number of max cheat attempts to be recorded").  Section 7 lists
\* "capacity (cheater table full)" among the errors, and every error is a
\* non-zero return of the step function: an incident that finds the list
\* full is not recorded and ends the step with an error
RECURSIVE resolve_loop(_, _, _, _, _, _)
resolve_loop(cl, k, chs, comm, slots, rv) ==
  IF k > Len(cl) THEN [ret |-> 0, cheaters |-> chs]
  ELSE IF Len(chs) >= CheaterMax THEN [ret |-> 1, cheaters |-> chs]
  ELSE resolve_loop(cl, k + 1,
          Append(chs, complaint_verdict(cl[k], slots[<<cl[k][2], cl[k][1]>>],
                                        reveal_of(rv, cl[k][1], cl[k][2]),
                                        comm[cl[k][2]])),
          comm, slots, rv)

\* the reveals no complaint asked for, as pairs <<revealing peer, session
\* peer>>, by revealing peer and then by session peer
RECURSIVE over_reveals(_, _, _)
over_reveals(rv, cl, b) ==
  IF b > DKG_N THEN <<>>
  ELSE LET extra == {ca \in DOMAIN rv[b] :
                       ca \notin Complainants(cl, b) /\ rv[b][ca] # "missing"}
       IN [k \in 1..Cardinality(extra) |-> <<b, SetToList(extra)[k]>>]
             \o over_reveals(rv, cl, b + 1)

\* section 4.7: a key revealed for a session not under complaint
\* disqualifies the peer that revealed it
over_reveal_verdict(pr) ==
  [step |-> KEY_REVEAL_STEP, error |-> ERR_NOT_COMPLAINED,
   peer |-> pr[1], other_peer |-> pr[2]]

\* the reveals nobody asked for, in order, into the same bounded list
RECURSIVE over_reveal_loop(_, _, _)
over_reveal_loop(ov, k, chs) ==
  IF k > Len(ov) THEN [ret |-> 0, cheaters |-> chs]
  ELSE IF Len(chs) >= CheaterMax THEN [ret |-> 1, cheaters |-> chs]
  ELSE over_reveal_loop(ov, k + 1, Append(chs, over_reveal_verdict(ov[k])))

Disqualified(chs) == {chs[k].peer : k \in 1..Len(chs)}


\* ------------------------------------------------------------------------
\* The framed messages of a session (header: tp-dkg.h 78-117; receive
\* check: section 4.3).  Every step function reads its input through the
\* receive check and returns the code of a message that fails it.  The
\* transcript hash of section 4.4 is not part of the model: which messages
\* each side hashes is decided by code that is not in src/.
\* ------------------------------------------------------------------------

\* sizeof(TP_DKG_Message): sig 64, msgno 1, len 4, from 1, to 1, ts 8,
\* sessionid 32
TPDKG_HEADER_SIZE == 111

\* the values of the field to
TO_TP == 0
TO_BROADCAST == 255

\* recv_msg error codes
RECV_ERR_LEN == 1
RECV_ERR_MSGNO == 2
RECV_ERR_FROM == 3
RECV_ERR_TO == 4
RECV_ERR_EXPIRED == 5
RECV_ERR_SIG == 6

\* the session id of the session that reads
SessionId == 0

Abs(x) == IF x < 0 THEN 0 - x ELSE x

\* the check with the signature verified before the timestamp
recv_msg_sig_first(msg, buf_len, msgno, from, to, clock, eps, last, sid_code) ==
  IF msg.len # buf_len THEN RECV_ERR_LEN
  ELSE IF msg.msgno # msgno THEN RECV_ERR_MSGNO
  ELSE IF msg.from # from THEN RECV_ERR_FROM
  ELSE IF msg.to # to THEN RECV_ERR_TO
  ELSE IF msg.sig # from THEN RECV_ERR_SIG
  ELSE IF Abs(clock - msg.ts) > eps \/ msg.ts < last THEN RECV_ERR_EXPIRED
  ELSE IF msg.sessionid # SessionId THEN sid_code
  ELSE 0

\* the check without the comparison with last_ts
recv_msg_window_only(msg, buf_len, msgno, from, to, clock, eps, last, sid_code) ==
  IF msg.len # buf_len THEN RECV_ERR_LEN
  ELSE IF msg.msgno # msgno THEN RECV_ERR_MSGNO
  ELSE IF msg.from # from THEN RECV_ERR_FROM
  ELSE IF msg.to # to THEN RECV_ERR_TO
  ELSE IF Abs(clock - msg.ts) > eps THEN RECV_ERR_EXPIRED
  ELSE IF msg.sig # from THEN RECV_ERR_SIG
  ELSE IF msg.sessionid # SessionId THEN sid_code
  ELSE 0

\* the receive check, in the order of section 4.3: 0 if the message is
\* accepted, else the code of the first check that fails.  msg.sig is the
\* key that signed the message: the signature verifies under the key of the
\* expected sender.  The codes name no session id failure: sid_code is the
\* code the check gives it.
recv_msg(msg, buf_len, msgno, from, to, clock, eps, last, sid_code) ==
  IF msg.len # buf_len THEN RECV_ERR_LEN
  ELSE IF msg.msgno # msgno THEN RECV_ERR_MSGNO
  ELSE IF msg.from # from THEN RECV_ERR_FROM
  ELSE IF msg.to # to THEN RECV_ERR_TO
  ELSE IF Abs(clock - msg.ts) > eps \/ msg.ts < last THEN RECV_ERR_EXPIRED
  ELSE IF msg.sig # from THEN RECV_ERR_SIG
  ELSE IF msg.sessionid # SessionId THEN sid_code
  ELSE 0

\* the value of the field from in the messages of the TP (tp-dkg.h 93)
FROM_TP == 0

\* the second in which a session's messages are sent and read: every
\* message is delivered fresh
SessionTime == 0

\* a header signed with another key than the sender's
frame_wrong_key(msgno, from, to, clock) ==
  [len |-> TPDKG_HEADER_SIZE, msgno |-> msgno, from |-> from, to |-> to,
   ts |-> clock, sig |-> from + 1, sessionid |-> SessionId]

\* a header whose timestamp is one second older than the time of sending
frame_stale(msgno, from, to, clock) ==
  [len |-> TPDKG_HEADER_SIZE, msgno |-> msgno, from |-> from, to |-> to,
   ts |-> clock - 1, sig |-> from, sessionid |-> SessionId]

\* the header a party running the code writes: its own id, the number of
\* the round, the time of sending, signed with its own key (msg.sig is the
\* key that signed)
frame(msgno, from, to, clock) ==
  [len |-> TPDKG_HEADER_SIZE, msgno |-> msgno, from |-> from, to |-> to,
   ts |-> clock, sig |-> from, sessionid |-> SessionId]

\* an output buffer nothing has been written to
NoMessage ==
  [len |-> 0, msgno |-> 0, from |-> 0, to |-> 0, ts |-> 0, sig |-> 0,
   sessionid |-> SessionId]

\* the rounds the TP ends with one message per peer: the relayed handshake
\* messages and the slices of the share matrix (section 4.5 items 4 and 7);
\* the other rounds end with a broadcast
UnicastRounds == {"noise1", "noise2", "shares"}

\* the field to of the TP's message to peer j that ends round r; round 0
\* is tpdkg_start_tp, whose msg0 is a broadcast
tp_to(r, j) ==
  IF r >= 1 /\ DkgSteps[r] \in UnicastRounds THEN j ELSE TO_BROADCAST

\* what tpdkg_tp_peer_msg yields for every peer at the end of round r
tp_messages(r) == [j \in Peers |-> frame(r, FROM_TP, tp_to(r, j), SessionTime)]

\* the receive check of peer j on the TP's message of the round before
peer_recv(j) ==
  recv_msg(tp_frame[j], TPDKG_HEADER_SIZE, peer_step[j] - 1, FROM_TP,
           tp_to(peer_step[j] - 1, j), SessionTime, 0, SessionTime, RECV_ERR_SIG)

\* the receive check of the TP on the messages of round r, in the order of
\* the peers from peer k on: the code of the first message that fails
RECURSIVE tp_recv(_, _)
tp_recv(k, r) ==
  IF k > DKG_N THEN 0
  ELSE LET rc == recv_msg(p_frame[k], TPDKG_HEADER_SIZE, r, k, TO_TP,
                          SessionTime, 0, SessionTime, RECV_ERR_SIG)
       IN IF rc # 0 THEN rc ELSE tp_recv(k + 1, r)

\* the rounds in which a peer outside the code may sign with a wrong key
MisframedRounds == {"intro", "noise1", "noise2", "commit"}

\* the headers peer j may put on its message of the round it is in
peer_frames(j) ==
  {frame(peer_step[j], j, TO_TP, SessionTime)}
     \cup IF j \in faulty /\ DkgSteps[peer_step[j]] \in MisframedRounds
          THEN {frame_wrong_key(peer_step[j], j, TO_TP, SessionTime)}
          ELSE {}

\* the state after tpdkg_start_tp, tpdkg_start_peer and the set_bufs calls:
\* msg0 is on its way to every peer
InitDKG ==
  /\ seed \in 0..MaxSeed
  /\ faulty \in {F \in SUBSET Peers : Cardinality(F) <= MaxFaulty /\ F # Peers}
  /\ tp_step = StepNo("intro")
  /\ tp_ret = 0
  /\ tp_commitments = [j \in Peers |-> <<>>]
  /\ tp_shares = <<>>
  /\ tp_complaints = <<>>
  /\ cheaters = <<>>
  /\ tp_frame = tp_messages(0)
  /\ peer_step = [j \in Peers |-> StepNo("intro")]
  /\ peer_ret = [j \in Peers |-> 0]
  /\ peer_share = [j \in Peers |-> [index |-> j, value |-> ScalarZero]]
  /\ p_commit = [j \in Peers |-> <<>>]
  /\ p_slots = [j \in Peers |-> <<>>]
  /\ p_complaints = [j \in Peers |-> {}]
  /\ p_reveals = [j \in Peers |-> <<>>]
  /\ p_frame = [j \in Peers |-> NoMessage]

\* the loop of tp-dkg.h 44-52 calls tpdkg_peer_next while the peer is not
\* done and no call has failed, once the TP's message of the round before
\* has arrived
PeerMayStep(j, name) ==
  /\ peer_ret[j] = 0
  /\ tpdkg_peer_not_done(peer_step[j]) = 1
  /\ peer_step[j] = StepNo(name)
  /\ tp_ret = 0
  /\ tp_step = peer_step[j]

\* the end of a peer's step: the call returns the code of the receive
\* check; if that is 0 the peer has sent its message, under header fr, and
\* is in the next round
PeerAdvance(j, fr) ==
  /\ peer_ret' = [peer_ret EXCEPT ![j] = peer_recv(j)]
  /\ peer_step' = [peer_step EXCEPT ![j] = IF peer_recv(j) = 0 THEN @ + 1 ELSE @]
  /\ p_frame' = [p_frame EXCEPT ![j] = IF peer_recv(j) = 0 THEN fr ELSE @]

\* introduction and the two relayed handshake messages
peer_handshake(j) ==
  /\ \E name \in {"intro", "noise1", "noise2"} : PeerMayStep(j, name)
  /\ \E fr \in peer_frames(j) : PeerAdvance(j, fr)
  /\ UNCHANGED <<seed, faulty, tpVars, peer_share>>
  /\ UNCHANGED <<p_commit, p_slots, p_complaints, p_reveals>>
  /\ UNCHANGED <<csVars, evVars, coeffVars, multVars, auxVars>>

\* the peer samples its polynomial and broadcasts the commitments
peer_commit(j) ==
  /\ PeerMayStep(j, "commit")
  /\ p_commit' = IF peer_recv(j) = 0
                 THEN [p_commit EXCEPT ![j] = dkg_commit(dkg_poly(seed, j))]
                 ELSE p_commit
  /\ \E fr \in peer_frames(j) : PeerAdvance(j, fr)
  /\ UNCHANGED <<seed, faulty, tpVars, peer_share>>
  /\ UNCHANGED <<p_slots, p_complaints, p_reveals>>
  /\ UNCHANGED <<csVars, evVars, coeffVars, multVars, auxVars>>

\* the peer sends every peer its share in the slot for that peer
peer_shares(j) ==
  /\ PeerMayStep(j, "shares")
  /\ \E sl \in [Peers -> UNION {faulty_slots(seed, j, r) : r \in Peers}] :
        /\ \A r \in Peers :
              IF j \in faulty /\ r # j
              THEN sl[r] \in faulty_slots(seed, j, r)
              ELSE sl[r] = honest_slot(seed, j, r)
        /\ p_slots' = IF peer_recv(j) = 0
                      THEN [p_slots EXCEPT ![j] = sl] ELSE p_slots
  /\ \E fr \in peer_frames(j) : PeerAdvance(j, fr)
  /\ UNCHANGED <<seed, faulty, tpVars, peer_share>>
  /\ UNCHANGED <<p_commit, p_complaints, p_reveals>>
  /\ UNCHANGED <<csVars, evVars, coeffVars, multVars, auxVars>>

\* the peer checks every incoming share against the commitments of its
\* issuer and complains about the mismatches
peer_complain(j) ==
  /\ PeerMayStep(j, "complain")
  /\ \E acc \in SUBSET (Peers \ {j}) :
        /\ j \notin faulty =>
              acc = {b \in Peers \ {j} :
                       ~dkg_verify_commitment(tp_commitments[b], j,
                                              tp_shares[<<b, j>>].value)}
        /\ p_complaints' = IF peer_recv(j) = 0
                           THEN [p_complaints EXCEPT ![j] = acc]
                           ELSE p_complaints
  /\ \E fr \in peer_frames(j) : PeerAdvance(j, fr)
  /\ UNCHANGED <<seed, faulty, tpVars, peer_share>>
  /\ UNCHANGED <<p_commit, p_slots, p_reveals>>
  /\ UNCHANGED <<csVars, evVars, coeffVars, multVars, auxVars>>

\* an accused peer reveals the key of the session with each complainant; a
\* peer outside the code may reveal wrong keys, none, or keys nobody asked for
peer_reveal(j) ==
  /\ PeerMayStep(j, "reveal")
  /\ \E more \in SUBSET (Peers \ ({j} \cup Complainants(tp_complaints, j))) :
     \E rv \in [Complainants(tp_complaints, j) \cup more ->
                  {"ok", "wrongkey", "missing"}] :
        /\ j \notin faulty => more = {} /\ \A ca \in DOMAIN rv : rv[ca] = "ok"
        /\ \A ca \in more : rv[ca] = "ok"
        /\ p_reveals' = IF peer_recv(j) = 0
                        THEN [p_reveals EXCEPT ![j] = rv] ELSE p_reveals
  /\ \E fr \in peer_frames(j) : PeerAdvance(j, fr)
  /\ UNCHANGED <<seed, faulty, tpVars, peer_share>>
  /\ UNCHANGED <<p_commit, p_slots, p_complaints>>
  /\ UNCHANGED <<csVars, evVars, coeffVars, multVars, auxVars>>

\* a peer that also sums the shares of the disqualified issuers
share_total_with_disqualified(slots, S, j) ==
  LET RECURSIVE total(_)
      total(R) ==
        IF R = {} THEN ScalarZero
        ELSE LET b == CHOOSE x \in R : TRUE
             IN crypto_core_ristretto255_scalar_add(slots[<<b, j>>].value,
                                                    total(R \ {b}))
  IN total(Peers)

\* sum of the shares the issuers in S sent to peer j
RECURSIVE share_total(_, _, _)
share_total(slots, S, j) ==
  IF S = {} THEN ScalarZero
  ELSE LET b == CHOOSE x \in S : TRUE
       IN crypto_core_ristretto255_scalar_add(slots[<<b, j>>].value,
                                              share_total(slots, S \ {b}, j))

\* the peer sums the shares of the issuers that were not disqualified
peer_finish(j) ==
  /\ PeerMayStep(j, "finish")
  /\ peer_share' =
       IF j \in faulty \/ peer_recv(j) # 0 THEN peer_share
       ELSE [peer_share EXCEPT ![j] =
               [index |-> j,
                value |-> share_total(tp_shares, Peers \ Disqualified(cheaters), j)]]
  /\ \E fr \in peer_frames(j) : PeerAdvance(j, fr)
  /\ UNCHANGED <<seed, faulty, tpVars>>
  /\ UNCHANGED <<p_commit, p_slots, p_complaints, p_reveals>>
  /\ UNCHANGED <<csVars, evVars, coeffVars, multVars, auxVars>>

\* the loop calls tpdkg_tp_next while the TP is not done and no call has
\* failed, with the messages of all peers for the round as input
TPMayStep(name) ==
  /\ tp_ret = 0
  /\ tpdkg_tp_not_done(tp_step) = 1
  /\ tp_step = StepNo(name)
  /\ \A j \in Peers : peer_step[j] = tp_step + 1

\* the end of a TP step whose own work returned code: the call returns the
\* code of the receive check or, if that is 0, code; if both are 0 the TP
\* has sent its messages of the round and is in the next round
TPAdvance(code) ==
  LET rc == IF tp_recv(1, tp_step) # 0 THEN tp_recv(1, tp_step) ELSE code
  IN /\ tp_ret' = rc
     /\ tp_step' = IF rc = 0 THEN tp_step + 1 ELSE tp_step
     /\ tp_frame' = IF rc = 0 THEN tp_messages(tp_step) ELSE tp_frame

tp_handshake ==
  /\ \E name \in {"intro", "noise1", "noise2"} : TPMayStep(name)
  /\ TPAdvance(0)
  /\ UNCHANGED <<tp_commitments, tp_shares, tp_complaints, cheaters>>
  /\ UNCHANGED <<seed, faulty, peerVars, msgVars>>
  /\ UNCHANGED <<csVars, evVars, coeffVars, multVars, auxVars>>

tp_commit ==
  /\ TPMayStep("commit")
  /\ tp_commitments' = IF tp_recv(1, tp_step) = 0 THEN p_commit ELSE tp_commitments
  /\ TPAdvance(0)
  /\ UNCHANGED <<tp_shares, tp_complaints, cheaters>>
  /\ UNCHANGED <<seed, faulty, peerVars, msgVars>>
  /\ UNCHANGED <<csVars, evVars, coeffVars, multVars, auxVars>>

\* the TP stores the n*n slots as they come and relays them
tp_store_shares ==
  /\ TPMayStep("shares")
  /\ tp_shares' = IF tp_recv(1, tp_step) = 0
                  THEN [pr \in Peers \X Peers |-> p_slots[pr[1]][pr[2]]]
                  ELSE tp_shares
  /\ TPAdvance(0)
  /\ UNCHANGED <<tp_commitments, tp_complaints, cheaters>>
  /\ UNCHANGED <<seed, faulty, peerVars, msgVars>>
  /\ UNCHANGED <<csVars, evVars, coeffVars, multVars, auxVars>>

tp_complain ==
  /\ TPMayStep("complain")
  /\ tp_complaints' = IF tp_recv(1, tp_step) = 0
                      THEN aggregate_complaints(p_complaints, 1)
                      ELSE tp_complaints
  /\ TPAdvance(0)
  /\ UNCHANGED <<tp_commitments, tp_shares, cheaters>>
  /\ UNCHANGED <<seed, faulty, peerVars, msgVars>>
  /\ UNCHANGED <<csVars, evVars, coeffVars, multVars, auxVars>>

\* the TP resolves the complaints and then the reveals nobody asked for;
\* the step fails when the cheaters array is full or fewer than t peers
\* are left
tp_reveal ==
  /\ TPMayStep("reveal")
  /\ LET rc == resolve_loop(tp_complaints, 1, cheaters, tp_commitments,
                            tp_shares, p_reveals)
         r == IF rc.ret # 0 THEN rc
              ELSE over_reveal_loop(over_reveals(p_reveals, tp_complaints, 1),
                                    1, rc.cheaters)
         left == Cardinality(Peers \ Disqualified(r.cheaters))
     IN /\ cheaters' = IF tp_recv(1, tp_step) = 0 THEN r.cheaters ELSE cheaters
        /\ TPAdvance(IF r.ret # 0 THEN r.ret ELSE IF left < DKG_T THEN 1 ELSE 0)
  /\ UNCHANGED <<tp_commitments, tp_shares, tp_complaints>>
  /\ UNCHANGED <<seed, faulty, peerVars, msgVars>>
  /\ UNCHANGED <<csVars, evVars, coeffVars, multVars, auxVars>>

tp_finish ==
  /\ TPMayStep("finish")
  /\ TPAdvance(0)
  /\ UNCHANGED <<tp_commitments, tp_shares, tp_complaints, cheaters>>
  /\ UNCHANGED <<seed, faulty, peerVars, msgVars>>
  /\ UNCHANGED <<csVars, evVars, coeffVars, multVars, auxVars>>

tpdkg_peer_next ==
  \E j \in Peers :
     \/ peer_handshake(j)
     \/ peer_commit(j)
     \/ peer_shares(j)
     \/ peer_complain(j)
     \/ peer_reveal(j)
     \/ peer_finish(j)

tpdkg_tp_next ==
  \/ tp_handshake
  \/ tp_commit
  \/ tp_store_shares
  \/ tp_complain
  \/ tp_reveal
  \/ tp_finish

NextDKG == tpdkg_peer_next \/ tpdkg_tp_next

InitSpecDKG == InitDKG /\ csOff /\ evOff /\ coeffOff /\ multOff /\ auxOff

SpecDKG == InitSpecDKG /\ [][NextDKG]_vars

\* a session in which every party runs the code; the loop of tp-dkg.h
\* 44-52 keeps calling the step functions
InitDkgHonest == InitSpecDKG /\ faulty = {}

FairSpecDkgHonest == InitDkgHonest /\ [][NextDKG]_vars /\ WF_vars(NextDKG)

\* ------------------------------------------------------------------------
\* The key-reveal step of the TP on the state adversarial peers can bring
\* about: any complaints, any stored slots, any reveals
\* ------------------------------------------------------------------------

\* the TP resolves at most MaxComplaints incidents: complaints and reveals
\* nobody asked for
MaxComplaints == 2

ComplaintPairs == {pr \in Peers \X Peers : pr[1] # pr[2]}

PairRank(pr) == pr[1] * (DKG_N + 1) + pr[2]

\* the lists aggregate_complaints can produce
ComplaintLists ==
  {cl \in UNION {[1..k -> ComplaintPairs] : k \in 0..MaxComplaints} :
     \A x, y \in 1..Len(cl) : x < y => PairRank(cl[x]) < PairRank(cl[y])}

\* what the accused sent for a complaint: the stored slot and the reveal
Evidence ==
  [value_ok : BOOLEAN, index_ok : BOOLEAN, hmac_ok : BOOLEAN,
   reveal : {"ok", "wrongkey", "missing"}]

\* the slot of issuer b for recipient r under evidence e
evidence_slot(sd, b, r, e) ==
  [value |-> IF e.value_ok THEN dkg_eval(dkg_poly(sd, b), r)
             ELSE crypto_core_ristretto255_scalar_add(dkg_eval(dkg_poly(sd, b), r),
                                                      ScalarOne),
   index |-> IF e.index_ok THEN r ELSE (r % DKG_N) + 1,
   hmac_ok |-> e.hmac_ok]

InitResolve ==
  /\ seed = MaxSeed
  /\ faulty = Peers
  /\ tp_step = StepNo("reveal")
  /\ tp_ret = 0
  /\ tp_commitments = [j \in Peers |-> dkg_commit(dkg_poly(seed, j))]
  /\ cheaters = <<>>
  /\ peer_step = [j \in Peers |-> StepNo("reveal") + 1]
  /\ peer_ret = [j \in Peers |-> 0]
  /\ peer_share = [j \in Peers |-> [index |-> j, value |-> ScalarZero]]
  /\ p_commit = tp_commitments
  /\ \E cl \in ComplaintLists :
       \E ev \in [1..Len(cl) -> Evidence] :
          LET at(pr) == CHOOSE k \in 1..Len(cl) : cl[k] = <<pr[2], pr[1]>>
              named(pr) == \E k \in 1..Len(cl) : cl[k] = <<pr[2], pr[1]>>
          IN /\ tp_complaints = cl
             /\ tp_shares =
                  [pr \in Peers \X Peers |->
                     IF named(pr) THEN evidence_slot(seed, pr[1], pr[2], ev[at(pr)])
                     ELSE honest_slot(seed, pr[1], pr[2])]
             /\ \E more \in SUBSET (ComplaintPairs \ {<<cl[k][2], cl[k][1]>> : k \in 1..Len(cl)}) :
                  /\ Len(cl) + Cardinality(more) <= MaxComplaints
                  /\ p_reveals =
                       [b \in Peers |->
                          [ca \in Complainants(cl, b) \cup {x \in Peers : <<b, x>> \in more} |->
                             IF ca \in Complainants(cl, b)
                             THEN ev[at(<<b, ca>>)].reveal ELSE "ok"]]
             /\ p_complaints =
                  [j \in Peers |-> {cl[k][2] : k \in {x \in 1..Len(cl) : cl[x][1] = j}}]
  /\ p_slots = [j \in Peers |-> [r \in Peers |-> tp_shares[<<j, r>>]]]
  /\ tp_frame = tp_messages(StepNo("complain"))
  /\ p_frame = [j \in Peers |-> frame(StepNo("reveal"), j, TO_TP, SessionTime)]

InitSpecResolve == InitResolve /\ csOff /\ evOff /\ coeffOff /\ multOff /\ auxOff

NextResolve == tp_reveal

SpecResolve == InitSpecResolve /\ [][NextResolve]_vars

\* ------------------------------------------------------------------------
\* The receive check of framed messages (header and codes: tp-dkg.h 78-117,
\* 209-215; the checks: section 4.3), on a TP session that reads the
\* message of every peer in every step
\* ------------------------------------------------------------------------

\* the clock runs from 0 to MaxTime
MaxTime == 3

\* sessions are started with ts_epsilon in 0..MaxEpsilon
MaxEpsilon == 1

\* another peer than peer p
OtherPeer(p) == (p % DKG_N) + 1

\* the framed messages the network may hand to the TP while it waits for
\* the message of peer p in step st
FramedMessages(st, p) ==
  [len : {TPDKG_HEADER_SIZE, TPDKG_HEADER_SIZE + 1},
   msgno : {st, st + 1},
   from : {p, OtherPeer(p)},
   to : {TO_TP, TO_BROADCAST},
   ts : 0..MaxTime,
   sig : {p, OtherPeer(p)},
   sessionid : {SessionId, SessionId + 1}]

\* the session after tpdkg_start_tp
InitRecv ==
  /\ now = 0
  /\ ts_epsilon \in 0..MaxEpsilon
  /\ last_ts = 0
  /\ r_step = 1
  /\ r_peer = 1
  /\ r_msg = <<>>
  /\ r_last = 0
  /\ r_ret = 0

\* time passes
Tick ==
  /\ now < MaxTime
  /\ now' = now + 1
  /\ UNCHANGED <<ts_epsilon, last_ts, r_step, r_peer, r_msg, r_last, r_ret>>
  /\ UNCHANGED <<csVars, evVars, coeffVars, multVars, dkgVars, viewVars>>

\* the TP reads the next message of its input; a non-zero code ends the
\* session, an accepted message moves last_ts to its timestamp
Receive ==
  /\ r_ret = 0
  /\ r_step < TPDKG_Done
  /\ \E m \in FramedMessages(r_step, r_peer) :
     \E sid_code \in RECV_ERR_LEN..RECV_ERR_SIG :
        LET rc == recv_msg(m, TPDKG_HEADER_SIZE, r_step, r_peer, TO_TP,
                           now, ts_epsilon, last_ts, sid_code)
        IN /\ r_ret' = rc
           /\ r_msg' = [msg |-> m, step |-> r_step, peer |-> r_peer, clock |-> now]
           /\ r_last' = last_ts
           /\ last_ts' = IF rc = 0 THEN m.ts ELSE last_ts
           /\ r_peer' = IF rc # 0 THEN r_peer
                        ELSE IF r_peer = DKG_N THEN 1 ELSE r_peer + 1
           /\ r_step' = IF rc = 0 /\ r_peer = DKG_N THEN r_step + 1 ELSE r_step
  /\ UNCHANGED <<now, ts_epsilon>>
  /\ UNCHANGED <<csVars, evVars, coeffVars, multVars, dkgVars, viewVars>>

NextRecv == Tick \/ Receive

InitSpecRecv ==
  InitRecv /\ csOff /\ evOff /\ coeffOff /\ multOff /\ dkgOff /\ viewOff

SpecRecv == InitSpecRecv /\ [][NextRecv]_vars

\* ------------------------------------------------------------------------
\* What threshold-1 shareholders learn: the coefficient vectors with which
\* toprf_create_shares (toprf.c 80-107) gives them the shares they hold,
\* for a secret they guess
\* ------------------------------------------------------------------------

\* the thresholds of the views
MaxViewThreshold == 3

\* the coalition's share values and its guess of the secret
ViewVals == ScalarVals

\* the coalition's indices
ViewIdx == 1..SmallN

\* the scalars the explanations are searched among: the fractions with a
\* numerator up to MaxViewNum and a denominator up to MaxViewDen.  A view of
\* InitView fixes a by t-1 linear equations whose determinant divides
\* MaxViewDen, and no solution has a numerator above MaxViewNum.
MaxViewNum == 17
MaxViewDen == 6

ViewCoeffs ==
  {Fraction(nu, de) : nu \in (0 - MaxViewNum)..MaxViewNum, de \in 1..MaxViewDen}

\* the arrays a among the vectors cs for which lines 91-106 write, at each
\* index of the view, the value of the view
explanations(cs, sec, idx, vals, thr) ==
  {c \in cs : \A k \in 1..(thr - 1) : share_at(sec, c, idx[k], thr).value = vals[k]}

\* the coalition: v_threshold-1 distinct indices, a value for each, and a
\* candidate secret
InitView ==
  /\ v_pc = "given"
  /\ v_threshold \in 2..MaxViewThreshold
  /\ v_indexes \in SortedLists(ViewIdx, v_threshold - 1)
  /\ v_values \in [1..(v_threshold - 1) -> ViewVals]
  /\ v_secret \in ViewVals
  /\ v_solutions = {}

\* every array a that lines 86-90 can sample (no draw is 0) and for which
\* lines 91-106 write the values the coalition holds
Explain ==
  /\ v_pc = "given"
  /\ v_solutions' =
       explanations([0..(v_threshold - 2) -> scalar_random_draws(ViewCoeffs)],
                    v_secret, v_indexes, v_values, v_threshold)
  /\ v_pc' = "explained"
  /\ UNCHANGED <<v_threshold, v_indexes, v_values, v_secret>>
  /\ UNCHANGED <<csVars, evVars, coeffVars, multVars, dkgVars, recvVars>>

NextView == Explain

InitSpecView ==
  InitView /\ csOff /\ evOff /\ coeffOff /\ multOff /\ dkgOff /\ recvOff

SpecView == InitSpecView /\ [][NextView]_vars

\* ========================================================================
\* Properties
\* ========================================================================

\* sum over the list idx of coeff(idx[k], idx) * value of share idx[k]
RECURSIVE LagrangeSum(_, _, _)
LagrangeSum(sh, idx, k) ==
  IF k > Len(idx) THEN ScalarZero
  ELSE crypto_core_ristretto255_scalar_add(
          crypto_core_ristretto255_scalar_mul(coeff(idx[k], idx),
                                              sh[idx[k] - 1].value),
          LagrangeSum(sh, idx, k + 1))

\* alpha^k for a valid point alpha
PointPower(alpha, k) == crypto_core_ristretto255_scalar_mul(k, alpha)

SubsetChosen == ev_pc \in {"eval", "mult", "done"}

\* C1 (Reconstruction): for the shares toprf_create_shares wrote for secret
\* s with threshold t, and every chosen list P of t distinct indices of
\* [1,n], the sum over i in P of coeff(i, P) * f(i) equals s in the scalar
\* field.
C1_Reconstruction ==
  SubsetChosen => LagrangeSum(shares, indexes, 1) = secret

\* C1 witness: a threshold-3 sharing of a non-zero secret with non-zero
\* coefficients is reconstructed from a subset that holds a large index
C1_Witness ==
  /\ SubsetChosen
  /\ threshold = MaxThreshold
  /\ secret # ScalarZero
  /\ \A m \in DOMAIN a : a[m] # ScalarZero
  /\ indexes[threshold] > SmallN
  /\ \E x, y \in Range(indexes) : shares[x - 1].value # shares[y - 1].value

\* C2 (Exponent reconstruction, TOPRF-OPRF equivalence): for a valid point
\* alpha, the sum toprf_thresholdcombine forms of the t partials that
\* toprf_Evaluate produced for the indices of P is alpha^k, the output of
\* the single-server oprf_Evaluate for the shared key k.
C2_ExponentReconstruction ==
  (ev_pc \in {"mult", "done"} /\ ValidPoint(blinded)) =>
     /\ combined = PointPower(blinded, secret)
     /\ combined = oprf_Evaluate(secret, blinded, BadPoint).Z

\* C2 witness: a combination over a non-identity point and a non-zero key
\* whose partials are not all the same
C2_Witness ==
  /\ ev_pc = "mult"
  /\ ValidPoint(blinded)
  /\ blinded # IdentityPoint
  /\ secret # ScalarZero
  /\ combined # IdentityPoint
  /\ \E x, y \in 1..Len(parts) : parts[x].value # parts[y].value
  /\ \A x \in 1..Len(erets) : erets[x] = 0

\* C3 (as claimed): for the raw partials (i, alpha^{k_i}) of the t shares of
\* P, a valid point alpha other than the identity and a non-zero key k,
\* toprf_thresholdmult returns 0 and writes
\* alpha^k, the point toprf_thresholdcombine produced for the same subset.
C3_ThresholdMultEqualsCombine ==
  (/\ ev_pc = "done"
   /\ ValidPoint(blinded)
   /\ blinded # IdentityPoint
   /\ secret # ScalarZero) =>
     /\ mult.ret = 0
     /\ mult.result = PointPower(blinded, secret)
     /\ mult.result = combined

\* C4 (as claimed): for every n in [2,255] the loop of toprf_create_shares
\* runs with its counter in 1..n only and ends, no write lands outside the
\* slots 0..n-1, and at the return slot i-1 carries index i for i = 1..n.
C4_CreateSharesTerminatesInBounds ==
  /\ ~oob
  /\ cs_pc # "crash"
  /\ cs_pc = "loop" => i \in 1..(n + 1)
  /\ cs_pc = "done" => \A k \in 1..n : shares[k - 1].index = k

\* C5 (as claimed): every partial toprf_Evaluate emitted with return value 0
\* carries the index of its shareholder and the value
\* alpha^{k_i * lambda_i(P)}.
C5_EvaluateEmitsIndexedPartial ==
  \A k \in 1..Len(parts) :
     erets[k] = 0 =>
        /\ parts[k].index = indexes[k]
        /\ parts[k].value =
             PointPower(blinded,
                crypto_core_ristretto255_scalar_mul(
                   shares[indexes[k] - 1].value, coeff(indexes[k], indexes)))

\* C6 (Lagrange symmetry): for an index i and two lists that are
\* rearrangements of the same duplicate-free list containing i, both calls
\* of coeff return the same scalar.
C6_LagrangeSymmetry ==
  (/\ c_pc = "done"
   /\ DuplicateFree(c_peers)
   /\ c_index \in Range(c_peers)
   /\ c_other \in Rearrangements(c_peers)) => c_lambda = c_lambda_other

\* C6 witness: two different orders of a three-element set, and a
\* coefficient that is neither 0 nor 1
C6_Witness ==
  /\ c_pc = "done"
  /\ DuplicateFree(c_peers)
  /\ Len(c_peers) = MaxPeers
  /\ c_index \in Range(c_peers)
  /\ c_other # c_peers
  /\ c_other[1] # c_peers[1]
  /\ c_lambda \notin {ScalarZero, ScalarOne}

\* whether the scalar multiplication of part k of the list succeeds
ScalarMultSucceeds(responses, k) ==
  crypto_scalarmult_ristretto255(BadPoint,
     coeff(responses[k].index, response_indexes(responses)),
     responses[k].value).ret = 0

\* C7: toprf_thresholdmult returns non-zero whenever some part of the list
\* holds a point the scalar multiplication rejects (a non-canonical
\* encoding in particular), and returns 0 only when the scalar
\* multiplication succeeded for every part.
C7_ThresholdMultFailure ==
  m_pc = "done" =>
     /\ (\E k \in 1..Len(m_responses) : ~ValidPoint(m_responses[k].value))
           => m_out.ret # 0
     /\ (\E k \in 1..Len(m_responses) : ~ScalarMultSucceeds(m_responses, k))
           => m_out.ret # 0
     /\ m_out.ret = 0
           => \A k \in 1..Len(m_responses) : ScalarMultSucceeds(m_responses, k)

\* C7 witness: the last part of a list of three is non-canonical, the parts
\* before it are accepted, and the call fails
C7_Witness ==
  /\ m_pc = "done"
  /\ Len(m_responses) = MaxResponses
  /\ m_responses[MaxResponses].value = BadPoint
  /\ \A k \in 1..(MaxResponses - 1) : ScalarMultSucceeds(m_responses, k)
  /\ m_out.ret # 0

\* ------------------------------------------------------------------------
\* TP-DKG
\* ------------------------------------------------------------------------

Min(x, y) == IF x < y THEN x ELSE y

AllDone ==
  /\ tpdkg_tp_not_done(tp_step) = 0
  /\ \A j \in Peers : tpdkg_peer_not_done(peer_step[j]) = 0

\* the peers that run the code and were not disqualified
Survivors == (Peers \ faulty) \ Disqualified(cheaters)

\* the issuers that were not disqualified
Issuers == Peers \ Disqualified(cheaters)

\* f_b(x) for the polynomial issuer b committed to
CommittedValue(b, x) == commitment_sum(tp_commitments[b], x, 0)

RECURSIVE SumOver(_, _, _)
SumOver(S, x, k) ==
  IF S = {} THEN ScalarZero
  ELSE LET b == CHOOSE y \in S : TRUE
       IN crypto_core_ristretto255_scalar_add(CommittedValue(b, x),
                                              SumOver(S \ {b}, x, k))

\* the final shares as the array the Lagrange sum reads
FinalShares == [k \in 0..(DKG_N - 1) |-> peer_share[k + 1]]

\* C8 (DKG output correctness): when a run has completed, every surviving
\* peer j holds k_j = sum over the non-disqualified issuers i of f_i(j),
\* and every t of the survivors' final shares reconstruct
\* k = sum over the non-disqualified issuers i of f_i(0).
C8_DkgOutput ==
  AllDone =>
     /\ \A j \in Survivors :
           peer_share[j] = [index |-> j, value |-> SumOver(Issuers, j, 0)]
     /\ \A P \in SortedLists(Survivors, DKG_T) :
           LagrangeSum(FinalShares, P, 1) = SumOver(Issuers, 0, 0)

\* C8 witness: a completed run in which a cheater was disqualified and
\* left out of the sums, and two survivors hold different shares
C8_Witness ==
  /\ AllDone
  /\ Disqualified(cheaters) # {}
  /\ Cardinality(Survivors) >= DKG_T
  /\ \E x, y \in Survivors : peer_share[x].value # peer_share[y].value
  /\ SumOver(Issuers, 0, 0) # SumOver(Peers, 0, 0)

\* the TP has sent its message that ends round r to every peer
TpHasSent(r) == \A j \in Peers : tp_frame[j].msgno = r

\* peer j has made the last step of the protocol: it has sent its message
\* of the last round and holds the sum of the values the issuers
\* committed to for it
PeerHasFinished(j) ==
  /\ p_frame[j].msgno = StepNo("finish")
  /\ peer_share[j] = [index |-> j, value |-> SumOver(Issuers, j, 0)]

Resolved ==
  \/ tp_step = StepNo("reveal") + 1 /\ tp_ret = 0
  \/ tp_step = StepNo("reveal") /\ tp_ret # 0

\* the evidence the TP holds for complaint k: the reveal and the slot
RevealFor(k) == reveal_of(p_reveals, tp_complaints[k][1], tp_complaints[k][2])
SlotFor(k) == tp_shares[<<tp_complaints[k][2], tp_complaints[k][1]>>]
ShareVerifies(k) ==
  dkg_verify_commitment(tp_commitments[tp_complaints[k][2]],
                        tp_complaints[k][1], SlotFor(k).value)

Enrolled(k, e, who, by) ==
  cheaters[k] = [step |-> KEY_REVEAL_STEP, error |-> e, peer |-> who, other_peer |-> by]

\* C10 (Complaint resolution verdict): for each complaint (a->b) the TP
\* handled it enrols exactly one cheater, by the first rule that applies:
\* reveal missing -> b, 7; key does not decrypt -> b, 4; share index is not
\* a -> b, 5; HMAC fails -> b, 3; share verifies -> a, 128; share does not
\* verify -> b, 129.
C10_Verdict ==
  Resolved =>
     /\ Len(cheaters) >= Min(Len(tp_complaints), CheaterMax)
     /\ \A k \in 1..Min(Len(tp_complaints), Len(cheaters)) :
           LET ca == tp_complaints[k][1]
               cb == tp_complaints[k][2]
               present == RevealFor(k) # "missing"
               decrypts == present /\ RevealFor(k) = "ok"
               indexed == decrypts /\ SlotFor(k).index = ca
               authentic == indexed /\ SlotFor(k).hmac_ok
           IN /\ ~present => Enrolled(k, ERR_UNCHECKED, cb, ca)
              /\ (present /\ ~decrypts) => Enrolled(k, ERR_DECRYPT, cb, ca)
              /\ (decrypts /\ ~indexed) => Enrolled(k, ERR_SHARE_INDEX, cb, ca)
              /\ (indexed /\ ~authentic) => Enrolled(k, ERR_HMAC, cb, ca)
              /\ (authentic /\ ShareVerifies(k)) => Enrolled(k, ERR_FALSE_COMPLAINT, ca, cb)
              /\ (authentic /\ ~ShareVerifies(k)) => Enrolled(k, ERR_CORRECT_COMPLAINT, cb, ca)

\* C10 witness: a slot with a wrong index and a failing HMAC behind a good
\* reveal is judged by the index, next to a complaint that was false
C10_Witness ==
  /\ Resolved
  /\ Len(tp_complaints) = MaxComplaints
  /\ Len(cheaters) = MaxComplaints
  /\ \E k \in 1..Len(tp_complaints) :
        /\ RevealFor(k) = "ok"
        /\ SlotFor(k).index # tp_complaints[k][1]
        /\ ~SlotFor(k).hmac_ok
        /\ cheaters[k].error = ERR_SHARE_INDEX
  /\ \E k \in 1..Len(tp_complaints) : cheaters[k].error = ERR_FALSE_COMPLAINT

\* the incidents the key-reveal step has to record: one per complaint and
\* one per reveal nobody asked for
OverReveals == over_reveals(p_reveals, tp_complaints, 1)
Incidents == Len(tp_complaints) + Len(OverReveals)

\* the peers that are not disqualified
Left == Cardinality(Peers \ Disqualified(cheaters))

\* the peers the key-reveal step finds cheating: for every complaint the
\* peer its verdict names, and every peer that revealed a key nobody asked
\* for
DetectedCheaters ==
  {complaint_verdict(tp_complaints[k], SlotFor(k), RevealFor(k),
                     tp_commitments[tp_complaints[k][2]]).peer :
     k \in 1..Len(tp_complaints)}
  \cup {OverReveals[k][1] : k \in 1..Len(OverReveals)}

\* C11: enrolling cheaters does not make tpdkg_tp_next fail: the key-reveal
\* step returns 0 when at least t peers were not found cheating, and when
\* fewer than t peers are left outside the cheaters list it returns
\* non-zero and every peer found cheating is in the list.
C11_StepFailure ==
  Resolved =>
     /\ Cardinality(Peers \ DetectedCheaters) >= DKG_T => tp_ret = 0
     /\ Left < DKG_T => (tp_ret # 0 /\ DetectedCheaters \subseteq Disqualified(cheaters))

\* one peer alone has caused more incidents than the cheaters list holds:
\* the list is full, the step has failed, and t peers were never accused
C11_ListFull ==
  /\ Resolved
  /\ Cardinality(DetectedCheaters) = 1
  /\ Incidents > CheaterMax
  /\ Len(cheaters) = CheaterMax
  /\ Left >= DKG_T
  /\ tp_ret # 0

\* the part of C11 that holds: a step that has recorded every incident
\* returns 0 exactly if at least t peers are left
C11_AllRecorded ==
  (Resolved /\ Len(cheaters) = Incidents) =>
     ((tp_ret = 0) <=> (Left >= DKG_T))

\* two peers were caught, one peer is left, the step failed and both
\* incidents are in the list
C11_ThresholdLoss ==
  /\ Resolved
  /\ Len(cheaters) = Incidents
  /\ Len(cheaters) >= DKG_N - DKG_T + 1
  /\ Left = DKG_T - 1
  /\ tp_ret # 0

\* the peers with a record of step 18, error 6
EnrolledForOverReveal ==
  {cheaters[x].peer :
     x \in {y \in 1..Len(cheaters) :
              /\ cheaters[y].step = KEY_REVEAL_STEP
              /\ cheaters[y].error = ERR_NOT_COMPLAINED}}

\* C13: after the key-reveal step every peer that revealed the key of a
\* session no complaint named is enrolled with step 18, error 6, and no
\* other peer is.
C13_OverReveal ==
  Resolved =>
     EnrolledForOverReveal = {OverReveals[k][1] : k \in 1..Len(OverReveals)}

\* the complaints have filled the cheaters list and a peer has revealed a
\* key nobody asked for: the step has failed and the peer is not enrolled
\* for it
C13_NotEnrolled ==
  /\ Resolved
  /\ Len(tp_complaints) >= CheaterMax
  /\ Len(OverReveals) > 0
  /\ EnrolledForOverReveal = {}
  /\ tp_ret # 0

\* the part of C13 that holds: a step that has recorded every incident
\* has enrolled exactly the peers that revealed too much, and a peer whose
\* share was found good under a false complaint is among them
C13_AllRecorded ==
  (Resolved /\ Len(cheaters) = Incidents) =>
     EnrolledForOverReveal = {OverReveals[k][1] : k \in 1..Len(OverReveals)}


\* ------------------------------------------------------------------------
\* The receive check
\* ------------------------------------------------------------------------

\* a message has been read
Received == r_msg # <<>>

\* the checks of section 4.3 on the message read last, against what the
\* session expected when it read it
LenOk == r_msg.msg.len = TPDKG_HEADER_SIZE
MsgnoOk == r_msg.msg.msgno = r_msg.step
FromOk == r_msg.msg.from = r_msg.peer
ToOk == r_msg.msg.to = TO_TP
InWindow == Abs(r_msg.clock - r_msg.msg.ts) <= ts_epsilon
NotBefore == r_msg.msg.ts >= r_last
SigOk == r_msg.msg.sig = r_msg.peer
SidOk == r_msg.msg.sessionid = SessionId
FramingOk == LenOk /\ MsgnoOk /\ FromOk /\ ToOk

\* the timestamp of the message is older than ts_epsilon
Stale == r_msg.clock - r_msg.msg.ts > ts_epsilon

\* C12: a message is accepted exactly when its length, msgno, from, to,
\* timestamp, signature and session id all pass; otherwise the code is that
\* of the first check that fails (1 length, 2 msgno, 3 from, 4 to,
\* 5 expired, 6 signature), and a correctly framed message older than
\* ts_epsilon gets code 5 whatever its signature and session id are
C12_ReceiveCodes ==
  Received =>
    /\ (r_ret = 0) <=> (FramingOk /\ InWindow /\ NotBefore /\ SigOk /\ SidOk)
    /\ ~LenOk => r_ret = RECV_ERR_LEN
    /\ LenOk /\ ~MsgnoOk => r_ret = RECV_ERR_MSGNO
    /\ LenOk /\ MsgnoOk /\ ~FromOk => r_ret = RECV_ERR_FROM
    /\ LenOk /\ MsgnoOk /\ FromOk /\ ~ToOk => r_ret = RECV_ERR_TO
    /\ FramingOk /\ ~(InWindow /\ NotBefore) => r_ret = RECV_ERR_EXPIRED
    /\ FramingOk /\ Stale => r_ret = RECV_ERR_EXPIRED
    /\ FramingOk /\ InWindow /\ NotBefore /\ ~SigOk => r_ret = RECV_ERR_SIG
    /\ FramingOk /\ InWindow /\ NotBefore /\ SigOk /\ ~SidOk
         => r_ret \in RECV_ERR_LEN..RECV_ERR_SIG

\* a correctly framed stale message with a bad signature, after an accepted
\* one, rejected as expired
C12_Witness ==
  /\ Received
  /\ r_msg.step > 1
  /\ FramingOk /\ Stale /\ ~SigOk
  /\ r_ret = RECV_ERR_EXPIRED

\* the message read last was accepted
Accepted == Received /\ r_ret = 0

\* C14: last_ts never decreases, and no message with a timestamp below
\* last_ts is accepted
C14_TimestampMonotonic ==
  /\ [][last_ts' >= last_ts]_vars
  /\ [](Accepted => r_msg.msg.ts >= r_last /\ last_ts = r_msg.msg.ts)

\* a well-formed, signed message inside the window of ts_epsilon but older
\* than the last accepted one, rejected as expired
C14_Witness ==
  /\ Received
  /\ FramingOk /\ InWindow /\ SigOk /\ SidOk
  /\ r_msg.msg.ts < r_last
  /\ r_ret = RECV_ERR_EXPIRED
  /\ last_ts = r_last


\* ------------------------------------------------------------------------
\* The Lagrange coefficient and the share polynomial in closed form
\* ------------------------------------------------------------------------

\* the product over the peers j of S other than index of j * (j - index)^-1,
\* every factor inverted on its own
RECURSIVE LagrangeProduct(_, _)
LagrangeProduct(index, S) ==
  IF S = {} THEN ScalarOne
  ELSE LET j == CHOOSE x \in S : TRUE
           rest == LagrangeProduct(index, S \ {j})
       IN IF j = index THEN rest
          ELSE crypto_core_ristretto255_scalar_mul(rest,
                  crypto_core_ristretto255_scalar_mul(ScalarOfByte(j),
                     crypto_core_ristretto255_scalar_invert(
                        crypto_core_ristretto255_scalar_sub(ScalarOfByte(j),
                                                            ScalarOfByte(index)))))

\* C16: for an index i and a set P of peers, coeff returns the product over
\* the j in P other than i of j * (j - i)^-1, and 1 when P = {i}
C16_CoeffFormula ==
  (c_pc = "done" /\ DuplicateFree(c_peers)) =>
     /\ c_lambda = LagrangeProduct(c_index, Range(c_peers))
     /\ c_lambda_other = LagrangeProduct(c_index, Range(c_other))
     /\ Range(c_peers) = {c_index} => c_lambda = ScalarOne

\* three peers with the index among them and not in the first place, the
\* coefficient being neither 0 nor 1
C16_Witness ==
  /\ c_pc = "done"
  /\ DuplicateFree(c_peers)
  /\ Cardinality(Range(c_peers)) = MaxPeers
  /\ c_index \in Range(c_peers)
  /\ c_peers[1] # c_index
  /\ c_lambda = LagrangeProduct(c_index, Range(c_peers))
  /\ c_lambda \notin {ScalarZero, ScalarOne}

\* the sum over m = 1..thr-1 of coeffs[m-1] * x^m, for the index x
RECURSIVE PolyTail(_, _, _)
PolyTail(coeffs, x, m) ==
  IF m = 0 THEN ScalarZero
  ELSE crypto_core_ristretto255_scalar_add(PolyTail(coeffs, x, m - 1),
          crypto_core_ristretto255_scalar_mul(coeffs[m - 1],
                                              ScalarPow(ScalarOfByte(x), m)))

\* s + a_1 * x + ... + a_(t-1) * x^(t-1)
Polynomial(sec, coeffs, x, thr) ==
  crypto_core_ristretto255_scalar_add(sec, PolyTail(coeffs, x, thr - 1))

\* the shares to look at in a state: in the loop the one written last (the
\* counter is one past its index), at the return of the function all of them
WrittenShares ==
  IF cs_pc = "loop"
  THEN {(i + UINT8_MAX - 1) % (UINT8_MAX + 1)} \cap DOMAIN shares
  ELSE IF ev_pc = "idle" THEN DOMAIN shares ELSE {}

\* C17: the share toprf_create_shares writes for index k has the value
\* s + a_1 * k + ... + a_(t-1) * k^(t-1), where a_m is the m-th sampled
\* coefficient (a[m-1] of the array) and s is the secret the function was
\* called with
C17_SharePolynomial ==
  \A k \in WrittenShares :
     shares[k].index # 0 =>
        /\ shares[k].index = k + 1
        /\ shares[k].value =
              Polynomial(secret_at_call, a, shares[k].index, threshold)

\* the part of C17 that holds: as long as no round has written before the
\* array, every share written is the value of that polynomial
C17_BeforeStrayWrite ==
  ~oob =>
     \A k \in WrittenShares :
        shares[k].index # 0 =>
           /\ shares[k].index = k + 1
           /\ shares[k].value =
                 Polynomial(secret_at_call, a, shares[k].index, threshold)

\* the function has returned shares of a polynomial of the largest degree
\* whose leading coefficient is not 0, among them one for an index above 1
C17_Returned ==
  /\ cs_pc = "done"
  /\ threshold = MaxThreshold
  /\ a[threshold - 2] # ScalarZero
  /\ \E k \in DOMAIN shares :
        /\ shares[k].index > 1
        /\ shares[k].value # secret_at_call
        /\ shares[k].value =
              Polynomial(secret_at_call, a, shares[k].index, threshold)

\* after a stray write that replaced the secret, a round has written a
\* share of the replaced secret
C17_ShareOfOverwrittenSecret ==
  /\ oob
  /\ cs_pc = "loop"
  /\ secret # secret_at_call
  /\ \E k \in WrittenShares :
        /\ shares[k].index = k + 1
        /\ shares[k].value = Polynomial(secret, a, shares[k].index, threshold)
        /\ shares[k].value #
              Polynomial(secret_at_call, a, shares[k].index, threshold)


\* ------------------------------------------------------------------------
\* Secrecy below the threshold
\* ------------------------------------------------------------------------

\* the arrays lines 91-106 map to the view, zero entries included
AllExplanations ==
  explanations([0..(v_threshold - 2) -> ViewCoeffs],
               v_secret, v_indexes, v_values, v_threshold)

\* C18 (as claimed): for threshold-1 distinct indices, any share values at
\* them and any candidate secret, exactly one vector of coefficients that
\* toprf_create_shares can sample makes it write those values at those
\* indices
C18_OneExplanation ==
  v_pc = "explained" => Cardinality(v_solutions) = 1

\* lines 91-106 alone map exactly one array to every view, and the views
\* no run produces are those whose array has an entry 0, which line 89
\* never draws
C18_ExplainedUnlessZero ==
  v_pc = "explained" =>
     /\ Cardinality(AllExplanations) = 1
     /\ v_solutions = {c \in AllExplanations :
                          \A m \in DOMAIN c : c[m] # ScalarZero}

\* a view no run produces: one share, equal to the candidate secret
C18_NoExplanation ==
  /\ v_pc = "explained"
  /\ v_threshold = 2
  /\ v_values[1] = v_secret
  /\ v_solutions = {}

====
